---- MODULE Spec2Model ----
(***************************************************************************)
(* Model of score_calculator.py: the scoring engine compute_score, which   *)
(* turns a threat model document and a set of inactive threat names into a *)
(* ScoreResult (dimension scores, overall, stars, compliance, counts), the *)
(* checks file reader load_checks_file, and the command line main.         *)
(*                                                                         *)
(* Strings whose characters matter (tags) are sequences of one-character   *)
(* strings; a float is kept as the operands [num, den] of the division     *)
(* that produced it, and FloatDiv gives the double that division returns.  *)
(***************************************************************************)
EXTENDS Integers, Sequences, FiniteSets, TLC

VARIABLES threat_model, inactive_threats, all_inactive, pc, result, raised,
          args, files, exit_code, stderr

\* The command line, the files it names and what main gives back.
cli == <<args, files, exit_code, stderr>>

vars == <<threat_model, inactive_threats, all_inactive, pc, result, raised, cli>>

(***************************************************************************)
(* Bounds and input domains                                                *)
(***************************************************************************)
\* Longest metric list of a document.
MaxMetrics == 2

\* Metric names of the documents; inactive sets are drawn from the same names.
Names == {"t1", "t2"}

\* Dimension strings of the documents: two of the five labels and one that is
\* none of them.
DocDimensions == {"network", "credentials", "privacy"}

\* Severities of the documents (the code reads any integer).
Severities == {-1, 3, 4}

\* Tags of the documents: "C,A,B" (two separators, prefix "C") and "CB" (no
\* separator; it extends the prefix "C").
TagPool == { <<"C", ",", "A", ",", "B">>, <<"C", "B">> }

\* Tag lists: at most two tags, repetitions allowed.
TagLists == {<<>>} \cup {<<t>> : t \in TagPool} \cup {<<t, u>> : t, u \in TagPool}

\* Metric records that vary in dimension and severity.
DimMetricPool ==
    [name : Names, dimension : DocDimensions, severity : Severities, tags : {<<>>}]

\* Metric records that vary in their tags.
TagMetricPool ==
    [name : Names, dimension : {"network"}, severity : {3}, tags : TagLists]

SeqsUpTo(S, n) == UNION {[1..k -> S] : k \in 0..n}

MetricLists == SeqsUpTo(DimMetricPool, MaxMetrics) \cup SeqsUpTo(TagMetricPool, MaxMetrics)

\* Longest metric list of the documents whose metrics all carry the tag "CB".
MaxLong == 11

\* A document of n metrics tagged "CB", the first k named t1, the others t2.
LongDoc(k, n) ==
    [i \in 1..n |-> [name      |-> IF i <= k THEN "t1" ELSE "t2",
                     dimension |-> "network",
                     severity  |-> 3,
                     tags      |-> << <<"C", "B">> >>]]

\* A record without the keys outside F.
Restrict(m, F) == [f \in F \cap DOMAIN m |-> m[f]]

\* Metric records that lack any of their four keys.
ShapeMetricPool ==
    {Restrict(m, F) :
        m \in [name : {"t1"}, dimension : {"network"}, severity : {3},
               tags : {<< <<"C", "B">> >>}],
        F \in SUBSET {"name", "dimension", "severity", "tags"}}

\* Documents of such records, and documents without "name" or "metrics".
ShapeDocs ==
    {Restrict([name |-> "test model", metrics |-> l], F) :
        l \in SeqsUpTo(ShapeMetricPool, MaxMetrics),
        F \in {{"name", "metrics"}, {"name"}, {"metrics"}}}

\* Longest tags list a caller grows by appending.
MaxTags == 2

\* Documents whose records have an empty tags list, one tag, or no "tags" key.
MutateDocs ==
    {[name |-> "test model", metrics |-> l] :
        l \in SeqsUpTo(
                 [name : Names, dimension : {"network"}, severity : {3},
                  tags : {<<>>, << <<"C", "B">> >>}]
                 \cup [name : Names, dimension : {"network"}, severity : {3}],
                 MaxMetrics)}

\* Longest JSON array of a checks file.
MaxItems == 3

\* Parsed JSON.  A scalar is [kind, v]; an array is [kind, items]; an object
\* is [kind, fields], fields being the function from its keys to its values.
JsonString(s) == [kind |-> "string", v |-> s]

JsonNumber == [kind |-> "number", v |-> "1"]

JsonNull == [kind |-> "null", v |-> "null"]

JsonArray(items) == [kind |-> "array", items |-> items]

JsonObject(fields) == [kind |-> "object", fields |-> fields]

\* Elements of the arrays of a checks file: a known name, an unknown name, a
\* number and a nested array.
JsonItems == {JsonString("t1"), JsonString("zz"), JsonNumber, JsonArray(<<>>)}

JsonArrays == {JsonArray(l) : l \in SeqsUpTo(JsonItems, MaxItems)}

\* What a checks file parses to: an array, an object with or without the key
\* "inactive" (its value an array, a string, a number, null or an object), or
\* a scalar.
ChecksData ==
    JsonArrays
    \cup {JsonObject([inactive |-> v]) :
              v \in JsonArrays \cup {JsonString("zz"), JsonNumber, JsonNull,
                                     JsonObject([t1 |-> JsonNumber])}}
    \cup {JsonObject([inactive |-> JsonArray(<<JsonString("t1")>>), version |-> JsonNumber]),
          JsonObject([wrong_key |-> JsonArray(<<>>)]),
          JsonObject(<<>>),
          JsonString("zz"), JsonNumber, JsonNull}

\* A path: no file, a file that cannot be read, a file that is not JSON, or
\* a JSON file.
NoFile == [kind |-> "missing"]

BrokenFiles == {NoFile, [kind |-> "unreadable"], [kind |-> "invalid"]}

JsonFile(data) == [kind |-> "json", data |-> data]

ChecksFiles == BrokenFiles \cup {JsonFile(d) : d \in ChecksData}

\* Metric records of the documents of the command line: two complete ones,
\* one of an unknown dimension and one without a name.
MainMetricPool ==
    {[name |-> "t1", dimension |-> "network", severity |-> 3,
      tags |-> << <<"C", "B">> >>],
     [name |-> "t2", dimension |-> "credentials", severity |-> 4, tags |-> <<>>],
     [name |-> "t2", dimension |-> "privacy", severity |-> 3],
     [dimension |-> "network", severity |-> 3]}

\* What the threat model parses to: a document (an object whose fields are
\* kept as the document of compute_score), the empty object, or an array.
MainDocs ==
    {JsonObject([name |-> "test model", metrics |-> l]) :
        l \in SeqsUpTo(MainMetricPool, MaxMetrics)}
    \cup {JsonObject(<<>>), JsonArray(<<>>)}

ModelFiles == BrokenFiles \cup {JsonFile(d) : d \in MainDocs}

\* The URL of the threat model: the fetch fails, the response is not JSON,
\* or it is a document.
Unreachable == [kind |-> "unreachable"]

Remotes ==
    {Unreachable, [kind |-> "invalid"],
     JsonFile(JsonObject([name |-> "test model", metrics |-> <<>>]))}

\* Checks files of the command line.
MainChecksFiles ==
    BrokenFiles
    \cup {JsonFile(d) :
             d \in {JsonArray(<<JsonString("t1"), JsonString("zz")>>),
                    JsonArray(<<JsonNumber>>),
                    JsonArray(<<JsonArray(<<>>)>>),
                    JsonObject([inactive |-> JsonArray(<<JsonString("zz")>>)]),
                    JsonObject([inactive |-> JsonNumber]),
                    JsonObject([wrong_key |-> JsonArray(<<>>)])}}

\* The parsed arguments: --local-file given, the names after --inactive,
\* --checks-file given, --list-threats given (--all-inactive is the variable
\* all_inactive).
MainArgs ==
    [local_file : BOOLEAN, inactive : SUBSET {"t1", "zz"},
     checks_file : BOOLEAN, list_threats : BOOLEAN]

\* The inactive_threats argument: None, or a set of names.
InactiveArgs ==
    {[none |-> TRUE, names |-> {}]} \cup {[none |-> FALSE, names |-> S] : S \in SUBSET Names}

(***************************************************************************)
(* Program constants                                                       *)
(***************************************************************************)
DIMENSIONS ==
    <<"network", "system services", "system integrity", "credentials", "applications">>

DimensionSet == {DIMENSIONS[i] : i \in 1..Len(DIMENSIONS)}

\* Value of `result` before compute_score returns, and after it raised.
NoResult == [platform |-> "<no result>"]

(***************************************************************************)
(* compute_score, step by step                                             *)
(***************************************************************************)
\* inactive_threats = set() when None is passed.
InactiveSet(arg) == IF arg.none THEN {} ELSE arg.names

\* Mutant: the all_inactive flag is forgotten.
IsInactiveIgnoringFlag(name, inactive, allInactive) == name \in inactive

\* Mutant: a non-empty set takes precedence over the flag.
IsInactiveSetFirst(name, inactive, allInactive) ==
    IF inactive # {} THEN name \in inactive ELSE allInactive

IsInactive(name, inactive, allInactive) == allInactive \/ name \in inactive

\* dict.get(key, default)
Get(d, key, default) == IF key \in DOMAIN d THEN d[key] ELSE default

\* The keys the list comprehension reads with m[...].
RequiredFields == {"name", "dimension", "severity"}

\* Mutant: the tags are read with m["tags"] as well.
MissingKeyOrTags(raw) ==
    \E i \in 1..Len(raw) : ~((RequiredFields \cup {"tags"}) \subseteq DOMAIN raw[i])

\* m["name"], m["dimension"] or m["severity"] raises KeyError for a record
\* without that key.
MissingKey(raw) ==
    \E i \in 1..Len(raw) : ~(RequiredFields \subseteq DOMAIN raw[i])

MetricResult(m, inactive, allInactive) ==
    [name      |-> m.name,
     dimension |-> m.dimension,
     severity  |-> m.severity,
     tags      |-> Get(m, "tags", <<>>),
     active    |-> ~IsInactive(m.name, inactive, allInactive)]

BuildMetrics(raw, inactive, allInactive) ==
    [i \in 1..Len(raw) |-> MetricResult(raw[i], inactive, allInactive)]

\* dim_accum[m.dimension] raises KeyError for a key that is not in the dict.
DimKeyError(metrics) ==
    \E i \in 1..Len(metrics) : metrics[i].dimension \notin DimensionSet

InitAccum == [d \in DimensionSet |-> <<0, 0>>]

\* Mutant: the active metrics are added to current.
AccumStepInverted(acc, m) ==
    LET current == acc[m.dimension][1]
        maximum == acc[m.dimension][2] + m.severity
    IN  [acc EXCEPT ![m.dimension] =
            <<IF m.active THEN current + m.severity ELSE current, maximum>>]

AccumStep(acc, m) ==
    LET current == acc[m.dimension][1]
        maximum == acc[m.dimension][2] + m.severity
    IN  [acc EXCEPT ![m.dimension] =
            <<IF ~m.active THEN current + m.severity ELSE current, maximum>>]

RECURSIVE DimAccum(_, _)
DimAccum(metrics, n) ==
    IF n = 0 THEN InitAccum ELSE AccumStep(DimAccum(metrics, n - 1), metrics[n])

\* Mutant: the score is rounded to nearest instead of floored.
DimScoreValueRounded(current, maximum) ==
    IF maximum > 0 THEN (200 * current + maximum) \div (2 * maximum) ELSE -1

DimScoreValue(current, maximum) ==
    IF maximum > 0 THEN (100 * current) \div maximum ELSE -1

DimensionScore(name, acc) ==
    [name    |-> name,
     current |-> acc[name][1],
     maximum |-> acc[name][2],
     score   |-> DimScoreValue(acc[name][1], acc[name][2])]

Dimensions(acc) == [d \in DimensionSet |-> DimensionScore(d, acc)]

RECURSIVE OverallCurrent(_, _)
OverallCurrent(acc, n) ==
    IF n = 0 THEN 0 ELSE OverallCurrent(acc, n - 1) + acc[DIMENSIONS[n]][1]

RECURSIVE OverallMax(_, _)
OverallMax(acc, n) ==
    IF n = 0 THEN 0 ELSE OverallMax(acc, n - 1) + acc[DIMENSIONS[n]][2]

\* Mutant: the empty model gets the dimensions' sentinel.
OverallSentinel(overall_current, overall_max) ==
    IF overall_max > 0 THEN (100 * overall_current) \div overall_max ELSE -1

Overall(overall_current, overall_max) ==
    IF overall_max > 0 THEN (100 * overall_current) \div overall_max ELSE 0

(***************************************************************************)
(* Floating point.  A float of the program is kept as the operands         *)
(* [num, den] of the division that produced it; FloatDiv gives the double  *)
(* that the division returns, as the binary numeral `bits` (most           *)
(* significant first, <<>> for 0) of an integer and a `scale`: the double  *)
(* is that integer / 2^scale.                                              *)
(***************************************************************************)
\* Bits of the significand of a double.
Precision == 53

RECURSIVE BitsOf(_)
BitsOf(n) == IF n = 0 THEN <<>> ELSE Append(BitsOf(n \div 2), n % 2)

Zeros(n) == [k \in 1..n |-> 0]

\* The numeral plus one.
Incr(bits) ==
    IF \A k \in 1..Len(bits) : bits[k] = 1
    THEN <<1>> \o Zeros(Len(bits))
    ELSE LET last == CHOOSE j \in 1..Len(bits) :
                         bits[j] = 0 /\ \A k \in (j + 1)..Len(bits) : bits[k] = 1
         IN  [k \in 1..Len(bits) |->
                 IF k < last THEN bits[k] ELSE IF k = last THEN 1 ELSE 0]

\* 2^k modulo den, by repeated squaring.
RECURSIVE Pow2Mod(_, _)
Pow2Mod(k, den) ==
    IF k = 0 THEN 1 % den
    ELSE LET h == Pow2Mod(k \div 2, den)
         IN  (h * h * (IF k % 2 = 1 THEN 2 ELSE 1)) % den

\* Long division of num by den: the remainder after k binary digits of the
\* fraction, and the k-th digit (k >= 1).
Remainder(num, den, k) == ((num % den) * Pow2Mod(k, den)) % den

Digit(num, den, k) == (2 * Remainder(num, den, k - 1)) \div den

\* The digits of the fraction that make the quotient's numeral Precision bits
\* long: all that follow the integer part, or those from the first 1 on.
Quotient(num, den) ==
    LET int   == BitsOf(num \div den)
        first == IF int # <<>> THEN 1
                 ELSE CHOOSE k \in 1..(den + 1) :
                          /\ Digit(num, den, k) = 1
                          /\ \A j \in 1..(k - 1) : Digit(num, den, j) = 0
        scale == first - 1 + Precision - Len(int)
    IN  [bits  |-> int \o [k \in 1..(scale - first + 1) |-> Digit(num, den, first + k - 1)],
         scale |-> scale,
         rem   |-> Remainder(num, den, scale)]

\* num / den for integers num >= 0 and den > 0 (both exactly representable
\* as doubles, as are the products 100.0 * compliant and overall * 5.0): the
\* quotient rounded to nearest, ties to even.
FloatDiv(num, den) ==
    IF num = 0 THEN [bits |-> <<>>, scale |-> 0]
    ELSE LET q  == Quotient(num, den)
             up == \/ 2 * q.rem > den
                   \/ 2 * q.rem = den /\ q.bits[Len(q.bits)] = 1
         IN  [bits |-> IF up THEN Incr(q.bits) ELSE q.bits, scale |-> q.scale]

\* The properties multiply and compare the doubles of a result: the
\* operators from here to FloatLEInt give Python's float * int, float == int
\* and float <= int.
RECURSIVE Pow2(_)
Pow2(n) == IF n = 0 THEN 1 ELSE 2 * Pow2(n - 1)

\* The integer a short numeral denotes.
RECURSIVE ValueOf(_)
ValueOf(bits) ==
    IF bits = <<>> THEN 0
    ELSE 2 * ValueOf(SubSeq(bits, 1, Len(bits) - 1)) + bits[Len(bits)]

\* The numeral of n, with leading zeros up to the width.
Padded(n, width) == Zeros(width - Len(BitsOf(n))) \o BitsOf(n)

\* The numeral times a small natural number, plus a carry: the low Len(bits)
\* digits of the result and the carry out of them, 16 digits at a time from
\* the least significant end (a step's product stays below 2^31 for a factor
\* below 2^15).
RECURSIVE TimesSmall(_, _, _)
TimesSmall(bits, factor, carry) ==
    IF Len(bits) <= 16
    THEN LET v == ValueOf(bits) * factor + carry
         IN  [bits  |-> Padded(v % Pow2(Len(bits)), Len(bits)),
              carry |-> v \div Pow2(Len(bits))]
    ELSE LET cut  == Len(bits) - 16
             low  == TimesSmall(SubSeq(bits, cut + 1, Len(bits)), factor, carry)
             high == TimesSmall(SubSeq(bits, 1, cut), factor, low.carry)
         IN  [bits |-> high.bits \o low.bits, carry |-> high.carry]

\* A numeral of any length rounded to Precision significant bits (nearest,
\* ties to even).
RoundToPrecision(bits, scale) ==
    IF Len(bits) <= Precision THEN [bits |-> bits, scale |-> scale]
    ELSE LET kept == SubSeq(bits, 1, Precision)
             tail == SubSeq(bits, Precision + 1, Len(bits))
             up   == /\ tail[1] = 1
                     /\ \/ \E k \in 2..Len(tail) : tail[k] = 1
                        \/ kept[Precision] = 1
         IN  [bits  |-> IF up THEN Incr(kept) ELSE kept,
              scale |-> scale - Len(tail)]

\* float * int for a non-negative double and a natural number.
FloatTimes(x, factor) ==
    LET low     == TimesSmall(x.bits, factor, 0)
        product == BitsOf(low.carry) \o low.bits
        first   == IF \E k \in 1..Len(product) : product[k] = 1
                   THEN CHOOSE k \in 1..Len(product) :
                            product[k] = 1 /\ \A j \in 1..(k - 1) : product[j] = 0
                   ELSE Len(product) + 1
    IN  RoundToPrecision(SubSeq(product, first, Len(product)), x.scale)

\* float == int for a non-negative double and a natural number.
FloatEqualsInt(x, n) ==
    /\ x.scale >= 0
    /\ x.bits = BitsOf(n) \o Zeros(IF n = 0 THEN 0 ELSE x.scale)

\* a <= b for numerals without leading zeros.
NumLE(a, b) ==
    \/ Len(a) < Len(b)
    \/ /\ Len(a) = Len(b)
       /\ \/ a = b
          \/ \E k \in 1..Len(a) : a[k] < b[k] /\ \A j \in 1..(k - 1) : a[j] = b[j]

\* float <= int for a non-negative double and a natural number.
FloatLEInt(x, n) ==
    /\ x.scale >= 0
    /\ NumLE(x.bits, IF n = 0 THEN <<>> ELSE BitsOf(n) \o Zeros(x.scale))

\* stars = overall * 5.0 / 100.0: the operands of the division.
\* Mutant: whole stars only.
StarsWhole(overall) == [num |-> overall \div 20, den |-> 1]

Stars(overall) == [num |-> overall * 5, den |-> 100]

\* Mutant: the tag is cut at its last separator.
TagPrefixLastComma(tag) ==
    IF \E i \in 1..Len(tag) : tag[i] = ","
    THEN LET index == CHOOSE i \in 1..Len(tag) :
                          /\ tag[i] = ","
                          /\ \A j \in (i + 1)..Len(tag) : tag[j] # ","
         IN  SubSeq(tag, 1, index - 1)
    ELSE tag

\* tag[: tag.index(",")] when "," in tag, else tag.
TagPrefix(tag) ==
    IF \E i \in 1..Len(tag) : tag[i] = ","
    THEN LET index == CHOOSE i \in 1..Len(tag) :
                          /\ tag[i] = ","
                          /\ \A j \in 1..(i - 1) : tag[j] # ","
         IN  SubSeq(tag, 1, index - 1)
    ELSE tag

TagPrefixes(metrics) ==
    UNION {{TagPrefix(metrics[i].tags[j]) : j \in 1..Len(metrics[i].tags)} :
               i \in 1..Len(metrics)}

\* Mutant: a tag counts only for the bucket of its own prefix.
StartsWithOwnPrefix(s, prefix) == TagPrefix(s) = prefix

\* str.startswith
StartsWith(s, prefix) ==
    /\ Len(prefix) <= Len(s)
    /\ SubSeq(s, 1, Len(prefix)) = prefix

\* Mutant: a metric counts once for a bucket, however many of its tags match.
MatchingTagsOnce(tags, prefix, n) ==
    IF \E k \in 1..n : StartsWith(tags[k], prefix) THEN 1 ELSE 0

\* The inner loop over one metric's tags: how many start with the prefix.
RECURSIVE MatchingTags(_, _, _)
MatchingTags(tags, prefix, n) ==
    IF n = 0 THEN 0
    ELSE MatchingTags(tags, prefix, n - 1) + (IF StartsWith(tags[n], prefix) THEN 1 ELSE 0)

RECURSIVE ComplianceTotal(_, _, _)
ComplianceTotal(metrics, prefix, n) ==
    IF n = 0 THEN 0
    ELSE ComplianceTotal(metrics, prefix, n - 1)
         + MatchingTags(metrics[n].tags, prefix, Len(metrics[n].tags))

RECURSIVE ComplianceCompliant(_, _, _)
ComplianceCompliant(metrics, prefix, n) ==
    IF n = 0 THEN 0
    ELSE ComplianceCompliant(metrics, prefix, n - 1)
         + (IF ~metrics[n].active
            THEN MatchingTags(metrics[n].tags, prefix, Len(metrics[n].tags))
            ELSE 0)

\* Mutant: the percentage is floored like the dimension scores.
PercentageFloored(compliant, total) ==
    [num |-> (100 * compliant) \div total, den |-> 1]

\* percentage = (100.0 * compliant) / total: the operands of the division.
Percentage(compliant, total) == [num |-> 100 * compliant, den |-> total]

ComplianceResult(metrics, prefix) ==
    LET total     == ComplianceTotal(metrics, prefix, Len(metrics))
        compliant == ComplianceCompliant(metrics, prefix, Len(metrics))
    IN  [tag        |-> prefix,
         compliant  |-> compliant,
         total      |-> total,
         percentage |-> Percentage(compliant, total)]

Compliance(metrics) ==
    LET emitted == {p \in TagPrefixes(metrics) :
                        ComplianceTotal(metrics, p, Len(metrics)) > 0}
    IN  [p \in emitted |-> ComplianceResult(metrics, p)]

RECURSIVE ActiveCount(_, _)
ActiveCount(metrics, n) ==
    IF n = 0 THEN 0
    ELSE ActiveCount(metrics, n - 1) + (IF metrics[n].active THEN 1 ELSE 0)

\* Mutant: the inactive names are counted, not the inactive records.
InactiveCountNames(metrics, n) ==
    Cardinality({metrics[i].name : i \in {k \in 1..n : ~metrics[k].active}})

RECURSIVE InactiveCount(_, _)
InactiveCount(metrics, n) ==
    IF n = 0 THEN 0
    ELSE InactiveCount(metrics, n - 1) + (IF ~metrics[n].active THEN 1 ELSE 0)

\* The whole function: what it raises, and the ScoreResult it returns.
ComputeScore(doc, arg, allInactive) ==
    LET raw_metrics == Get(doc, "metrics", <<>>)
        metrics     == BuildMetrics(raw_metrics, InactiveSet(arg), allInactive)
    IN  IF MissingKey(raw_metrics) \/ DimKeyError(metrics)
        THEN [raised |-> "KeyError", value |-> NoResult]
        ELSE LET acc             == DimAccum(metrics, Len(metrics))
                 overall_current == OverallCurrent(acc, Len(DIMENSIONS))
                 overall_max     == OverallMax(acc, Len(DIMENSIONS))
                 overall         == Overall(overall_current, overall_max)
             IN  [raised |-> "none",
                  value  |-> [platform         |-> Get(doc, "name", "unknown"),
                              dimensions       |-> Dimensions(acc),
                              overall          |-> overall,
                              stars            |-> Stars(overall),
                              compliance       |-> Compliance(metrics),
                              metrics          |-> metrics,
                              total_metrics    |-> Len(metrics),
                              active_threats   |-> ActiveCount(metrics, Len(metrics)),
                              inactive_threats |-> InactiveCount(metrics, Len(metrics))]]

(***************************************************************************)
(* load_checks_file                                                        *)
(***************************************************************************)
Raise(exception) == [raised |-> exception, value |-> NoResult]

Return(value) == [raised |-> "none", value |-> value]

\* The characters of the strings of the model.
Characters(s) ==
    CASE s = "t1" -> {"t", "1"}
      [] s = "t2" -> {"t", "2"}
      [] s = "zz" -> {"z"}

\* with open(path) as f: json.load(f).
ReadJson(file) ==
    CASE file.kind = "missing"    -> Raise("FileNotFoundError")
      [] file.kind = "unreadable" -> Raise("PermissionError")
      [] file.kind = "invalid"    -> Raise("JSONDecodeError")
      [] file.kind = "json"       -> Return(file.data)

\* set(x): the elements of an array when all of them are hashable, the
\* characters of a string, the keys of an object; TypeError for an array
\* that holds an array or an object, and for a value that is not iterable.
PySet(x) ==
    CASE x.kind = "array" ->
             IF \E i \in 1..Len(x.items) : x.items[i].kind \in {"array", "object"}
             THEN Raise("TypeError")
             ELSE Return({x.items[i] : i \in 1..Len(x.items)})
      [] x.kind = "string" -> Return({JsonString(c) : c \in Characters(x.v)})
      [] x.kind = "object" -> Return({JsonString(k) : k \in DOMAIN x.fields})
      [] OTHER -> Raise("TypeError")

\* The part of load_checks_file after json.load.
ChecksOf(data) ==
    IF data.kind = "array" THEN PySet(data)
    ELSE IF data.kind = "object" /\ "inactive" \in DOMAIN data.fields
         THEN PySet(data.fields.inactive)
         ELSE Raise("ValueError")

LoadChecksFile(file) ==
    LET data == ReadJson(file)
    IN  IF data.raised # "none" THEN data ELSE ChecksOf(data.value)

(***************************************************************************)
(* main                                                                    *)
(***************************************************************************)
\* fetch_threat_model: urlopen and json.loads.
FetchThreatModel(remote) ==
    CASE remote.kind = "unreachable" -> Raise("ConnectionError")
      [] remote.kind = "invalid"     -> Raise("JSONDecodeError")
      [] remote.kind = "json"        -> Return(remote.data)

LoadThreatModel(file) == ReadJson(file)

LoadModel(a, f) ==
    IF a.local_file THEN LoadThreatModel(f.model) ELSE FetchThreatModel(f.remote)

\* The exceptions of the two except clauses of main.
ModelLoadCaught == {"ConnectionError", "FileNotFoundError", "JSONDecodeError"}

ChecksLoadCaught == {"FileNotFoundError", "JSONDecodeError", "ValueError"}

\* threat_model.get("metrics", []), for what json.load returned.
MetricsOf(doc) ==
    IF doc.kind = "object" THEN Return(Get(doc.fields, "metrics", <<>>))
    ELSE Raise("AttributeError")

\* The loop of --list-threats: the exception it ends with, if any.
ListThreats(doc) ==
    LET metrics == MetricsOf(doc)
    IN  IF metrics.raised # "none" THEN metrics.raised
        ELSE IF MissingKey(metrics.value) THEN "KeyError" ELSE "none"

\* inactive = set(args.inactive), inactive |= load_checks_file(...).
BuildInactive(a, f) ==
    LET given  == {JsonString(n) : n \in a.inactive}
        loaded == LoadChecksFile(f.checks)
    IN  IF ~a.checks_file THEN Return(given)
        ELSE IF loaded.raised # "none" THEN loaded
        ELSE Return(given \cup loaded.value)

\* known_names = {m["name"] for m in threat_model.get("metrics", [])}.
KnownNames(doc) ==
    LET metrics == MetricsOf(doc)
    IN  IF metrics.raised # "none" THEN metrics
        ELSE IF \E i \in 1..Len(metrics.value) : "name" \notin DOMAIN metrics.value[i]
             THEN Raise("KeyError")
             ELSE Return({JsonString(metrics.value[i].name) :
                              i \in 1..Len(metrics.value)})

\* The lines main writes to stderr.
Warning(unknown) == [kind |-> "Warning: unknown threat names (ignored)", names |-> unknown]

ErrorLoading(what) == [kind |-> "Error loading", names |-> {what}]

\* Mutant: the warning is printed with --all-inactive as well.
ValidateAlways(unknown, allInactive) ==
    IF unknown # {}
    THEN IF \E e \in unknown : e.kind # "string"
         THEN Raise("TypeError") ELSE Return(<<Warning(unknown)>>)
    ELSE Return(<<>>)

\* if unknown and not args.all_inactive: print the warning; ", ".join(sorted(
\* unknown)) raises TypeError for an element that is not a string.
Validate(unknown, allInactive) ==
    IF unknown # {} /\ ~allInactive
    THEN IF \E e \in unknown : e.kind # "string"
         THEN Raise("TypeError") ELSE Return(<<Warning(unknown)>>)
    ELSE Return(<<>>)

\* The names of the set that are strings, as compute_score tests them against
\* the metric names.
NamesOf(inactive) == {e.v : e \in {x \in inactive : x.kind = "string"}}

\* main returns.
Exit(code, err, value) ==
    [exit_code |-> code, raised |-> "none", stderr |-> err, result |-> value]

\* main ends with an exception it does not catch.
Uncaught(exception, err) ==
    [exit_code |-> -1, raised |-> exception, stderr |-> err, result |-> NoResult]

Main(a, f, allInactive) ==
    LET model    == LoadModel(a, f)
        doc      == model.value
        listed   == ListThreats(doc)
        inactive == BuildInactive(a, f)
        known    == KnownNames(doc)
        warned   == Validate(inactive.value \ known.value, allInactive)
        computed == ComputeScore(doc.fields,
                                 [none |-> FALSE, names |-> NamesOf(inactive.value)],
                                 allInactive)
    IN  IF model.raised \in ModelLoadCaught
        THEN Exit(1, <<ErrorLoading("threat model")>>, NoResult)
        ELSE IF model.raised # "none" THEN Uncaught(model.raised, <<>>)
        ELSE IF a.list_threats
        THEN IF listed = "none" THEN Exit(0, <<>>, NoResult) ELSE Uncaught(listed, <<>>)
        ELSE IF inactive.raised \in ChecksLoadCaught
        THEN Exit(1, <<ErrorLoading("checks file")>>, NoResult)
        ELSE IF inactive.raised # "none" THEN Uncaught(inactive.raised, <<>>)
        ELSE IF known.raised # "none" THEN Uncaught(known.raised, <<>>)
        ELSE IF warned.raised # "none" THEN Uncaught(warned.raised, <<>>)
        ELSE IF computed.raised # "none" THEN Uncaught(computed.raised, warned.value)
        ELSE Exit(0, warned.value, computed.value)

(***************************************************************************)
(* The state machine: one call of compute_score on a chosen input          *)
(***************************************************************************)
\* compute_score is called as a function: no command line, no files.
CalledAsLibrary ==
    /\ args = [called |-> "compute_score"]
    /\ files = <<>>
    /\ exit_code = -1
    /\ stderr = <<>>

Init ==
    /\ threat_model \in [name : {"test model"}, metrics : MetricLists]
    /\ inactive_threats \in InactiveArgs
    /\ all_inactive \in BOOLEAN
    /\ pc = "call"
    /\ result = NoResult
    /\ raised = "none"
    /\ CalledAsLibrary

compute_score ==
    /\ pc = "call"
    /\ LET out == ComputeScore(threat_model, inactive_threats, all_inactive)
       IN  /\ result' = out.value
           /\ raised' = out.raised
    /\ pc' = "done"
    /\ UNCHANGED <<threat_model, inactive_threats, all_inactive, cli>>

Next == compute_score

Spec == Init /\ [][Next]_vars

\* One call of compute_score on a long document of equally tagged metrics.
InitLong ==
    /\ threat_model \in {[name |-> "test model", metrics |-> LongDoc(k, n)] :
                             k \in 0..MaxLong, n \in 1..MaxLong}
    /\ inactive_threats \in InactiveArgs
    /\ all_inactive \in BOOLEAN
    /\ pc = "call"
    /\ result = NoResult
    /\ raised = "none"
    /\ CalledAsLibrary

SpecLong == InitLong /\ [][Next]_vars

\* tags=m.get("tags", []) stores the record's own list object in the
\* MetricResult when the record has the key "tags", and a new empty list
\* otherwise: metric i of the result and record i of the document then hold
\* the same list.
SharesTags(i) ==
    /\ pc = "done"
    /\ raised = "none"
    /\ "tags" \in DOMAIN threat_model.metrics[i]

\* The caller appends a tag to the tags list of record i of the document,
\* after the call.
append_document_tag ==
    /\ pc = "done"
    /\ \E i \in 1..Len(threat_model.metrics) :
          /\ "tags" \in DOMAIN threat_model.metrics[i]
          /\ Len(threat_model.metrics[i].tags) < MaxTags
          /\ threat_model' =
                 [threat_model EXCEPT !.metrics[i].tags = Append(@, <<"C", "B">>)]
          /\ result' = IF SharesTags(i)
                       THEN [result EXCEPT !.metrics[i].tags = Append(@, <<"C", "B">>)]
                       ELSE result
    /\ UNCHANGED <<inactive_threats, all_inactive, pc, raised, cli>>

\* The caller appends a tag to the tags list of metric i of the result.
append_result_tag ==
    /\ pc = "done"
    /\ raised = "none"
    /\ \E i \in 1..Len(result.metrics) :
          /\ Len(result.metrics[i].tags) < MaxTags
          /\ result' = [result EXCEPT !.metrics[i].tags = Append(@, <<"C", "B">>)]
          /\ threat_model' =
                 IF SharesTags(i)
                 THEN [threat_model EXCEPT !.metrics[i].tags = Append(@, <<"C", "B">>)]
                 ELSE threat_model
    /\ UNCHANGED <<inactive_threats, all_inactive, pc, raised, cli>>

\* One call of compute_score, and the caller's changes to the lists after it.
InitMutate ==
    /\ threat_model \in MutateDocs
    /\ inactive_threats \in InactiveArgs
    /\ all_inactive \in BOOLEAN
    /\ pc = "call"
    /\ result = NoResult
    /\ raised = "none"
    /\ CalledAsLibrary

NextMutate ==
    \/ compute_score
    \/ append_document_tag
    \/ append_result_tag

SpecMutate == InitMutate /\ [][NextMutate]_vars

\* One call of load_checks_file on a chosen file.
load_checks_file ==
    /\ pc = "call load_checks_file"
    /\ LET out == LoadChecksFile(files.checks)
       IN  /\ result' = out.value
           /\ raised' = out.raised
    /\ pc' = "done"
    /\ UNCHANGED <<threat_model, inactive_threats, all_inactive, cli>>

InitChecks ==
    /\ args = [called |-> "load_checks_file"]
    /\ files \in [checks : ChecksFiles]
    /\ exit_code = -1
    /\ stderr = <<>>
    /\ threat_model = <<>>
    /\ inactive_threats = [none |-> TRUE, names |-> {}]
    /\ all_inactive = FALSE
    /\ pc = "call load_checks_file"
    /\ result = NoResult
    /\ raised = "none"

NextChecks == load_checks_file

SpecChecks == InitChecks /\ [][NextChecks]_vars

\* One run of main: threat_model and inactive_threats become what main
\* loaded and built, as far as it got.
main ==
    /\ pc = "main"
    /\ LET out      == Main(args, files, all_inactive)
           model    == LoadModel(args, files)
           inactive == BuildInactive(args, files)
       IN  /\ exit_code' = out.exit_code
           /\ raised' = out.raised
           /\ stderr' = out.stderr
           /\ result' = out.result
           /\ threat_model' =
                  IF model.raised # "none" THEN threat_model
                  ELSE IF model.value.kind = "object" THEN model.value.fields
                  ELSE model.value
           /\ inactive_threats' =
                  IF model.raised = "none" /\ ~args.list_threats /\ inactive.raised = "none"
                  THEN [none |-> FALSE, names |-> inactive.value]
                  ELSE inactive_threats
    /\ pc' = "exit"
    /\ UNCHANGED <<all_inactive, args, files>>

\* The path not used is left out: no URL with --local-file, no file without.
InitMain ==
    /\ args \in MainArgs
    /\ files \in [model : ModelFiles, remote : Remotes, checks : MainChecksFiles]
    /\ args.local_file => files.remote = Unreachable
    /\ ~args.local_file => files.model = NoFile
    /\ ~args.checks_file => files.checks = NoFile
    /\ all_inactive \in BOOLEAN
    /\ exit_code = -1
    /\ stderr = <<>>
    /\ threat_model = <<>>
    /\ inactive_threats = [none |-> TRUE, names |-> {}]
    /\ pc = "main"
    /\ result = NoResult
    /\ raised = "none"

NextMain == main

SpecMain == InitMain /\ [][NextMain]_vars

\* One call of compute_score on a document whose records lack keys.
InitShape ==
    /\ threat_model \in ShapeDocs
    /\ inactive_threats \in InactiveArgs
    /\ all_inactive \in BOOLEAN
    /\ pc = "call"
    /\ result = NoResult
    /\ raised = "none"
    /\ CalledAsLibrary

SpecShape == InitShape /\ [][Next]_vars

(***************************************************************************)
(* Vocabulary of the properties, stated from the inputs and the result     *)
(***************************************************************************)
\* compute_score has returned a ScoreResult.
Returned == pc = "done" /\ raised = "none"

\* The document's metric records.
RawMetrics == Get(threat_model, "metrics", <<>>)

\* The names the caller passed as inactive.
GivenInactive == IF inactive_threats.none THEN {} ELSE inactive_threats.names

RECURSIVE SumFn(_, _)
SumFn(f, S) ==
    IF S = {} THEN 0
    ELSE LET x == CHOOSE y \in S : TRUE IN f[x] + SumFn(f, S \ {x})

\* Sum of the severities of the document's metrics at the positions I.
SevSum(I) == SumFn([i \in I |-> RawMetrics[i].severity], I)

\* q = floor(a / b), for b > 0.
IsFloor(q, a, b) == q * b <= a /\ a < (q + 1) * b

\* The rational r equals the integer n.
RatIs(r, n) == r.num = n * r.den

\* Positions of the document's metrics in dimension d.
InDimension(d) == {i \in 1..Len(RawMetrics) : RawMetrics[i].dimension = d}

\* Positions of the metrics the result reports as inactive.
InactivePositions == {i \in 1..Len(RawMetrics) : ~result.metrics[i].active}

\* C1: whenever compute_score returns, each of the five dimensions has a
\* DimensionScore whose maximum is the sum of the severities of the metrics of
\* the dimension, whose current is the sum over the inactive ones, and whose
\* score is floor(100 * current / maximum) for maximum > 0 and -1 otherwise;
\* current 3 of maximum 7 scores 42.
C1_DimensionScores ==
    Returned =>
        /\ DOMAIN result.dimensions = DimensionSet
        /\ \A d \in DimensionSet :
              LET ds == result.dimensions[d]
              IN  /\ ds.name = d
                  /\ ds.maximum = SevSum(InDimension(d))
                  /\ ds.current = SevSum(InDimension(d) \cap InactivePositions)
                  /\ IF ds.maximum > 0
                     THEN IsFloor(ds.score, 100 * ds.current, ds.maximum)
                     ELSE ds.score = -1
                  /\ (ds.current = 3 /\ ds.maximum = 7) => ds.score = 42

C1_Witness ==
    /\ Returned
    /\ result.dimensions["network"].current = 3
    /\ result.dimensions["network"].maximum = 7
    /\ result.dimensions["network"].score = 42
    /\ result.dimensions["credentials"].score = -1

\* C2: whenever compute_score returns, overall is
\* floor(100 * overall_current / overall_max) over the sums of current and
\* maximum of the five dimensions when overall_max > 0, and 0 otherwise; for an
\* empty metric list overall is 0, stars is 0.0 and every dimension scores -1.
C2_Overall ==
    Returned =>
        LET overall_current ==
                SumFn([d \in DimensionSet |-> result.dimensions[d].current], DimensionSet)
            overall_max ==
                SumFn([d \in DimensionSet |-> result.dimensions[d].maximum], DimensionSet)
        IN  /\ IF overall_max > 0
               THEN IsFloor(result.overall, 100 * overall_current, overall_max)
               ELSE result.overall = 0
            /\ Len(RawMetrics) = 0 =>
                  /\ result.overall = 0
                  /\ RatIs(result.stars, 0)
                  /\ \A d \in DimensionSet : result.dimensions[d].score = -1

C2_Witness ==
    /\ Returned
    /\ result.dimensions["network"].maximum > 0
    /\ result.dimensions["credentials"].maximum > 0
    /\ result.dimensions["network"].score = 100
    /\ result.dimensions["credentials"].score = 0
    /\ result.overall = 42

\* C3: a metric whose dimension is none of the five labels is silently
\* excluded: compute_score still returns a ScoreResult, the metric is in the
\* returned metric list and in total_metrics, and it adds to no dimension.
C3_UnknownDimensionExcluded ==
    (pc = "done" /\ \E i \in 1..Len(RawMetrics) :
                        RawMetrics[i].dimension \notin DimensionSet) =>
        /\ raised = "none"
        /\ result.total_metrics = Len(RawMetrics)
        /\ Len(result.metrics) = Len(RawMetrics)
        /\ \A d \in DimensionSet :
              result.dimensions[d].maximum = SevSum(InDimension(d))

\* C4 as stated: with all_inactive, every dimension with maximum > 0 scores
\* 100, overall is 100, stars is 5.0 and active_threats is 0, for all documents.
C4_AllInactiveAlways100 ==
    (Returned /\ all_inactive) =>
        /\ \A d \in DimensionSet :
              result.dimensions[d].maximum > 0 => result.dimensions[d].score = 100
        /\ result.overall = 100
        /\ RatIs(result.stars, 5)
        /\ result.active_threats = 0

\* C4, amended: whenever compute_score returns with all_inactive, every
\* dimension with maximum > 0 scores 100 and active_threats is 0; overall is
\* 100 and stars 5.0 when the severities of the document sum to more than 0,
\* and overall is 0 and stars 0.0 otherwise (as for the empty metric list).
C4_AllInactive ==
    (Returned /\ all_inactive) =>
        /\ \A d \in DimensionSet :
              result.dimensions[d].maximum > 0 => result.dimensions[d].score = 100
        /\ result.active_threats = 0
        /\ IF SevSum(1..Len(RawMetrics)) > 0
           THEN result.overall = 100 /\ RatIs(result.stars, 5)
           ELSE result.overall = 0 /\ RatIs(result.stars, 0)

C4_Witness ==
    /\ Returned
    /\ all_inactive
    /\ GivenInactive = {}
    /\ Len(RawMetrics) = 2
    /\ result.dimensions["network"].score = 100
    /\ result.dimensions["credentials"].score = 100
    /\ result.overall = 100

\* C5: whenever compute_score returns for a document with at least one metric,
\* no inactive names and all_inactive false, every dimension with maximum > 0
\* scores 0, overall is 0, stars is 0.0 and inactive_threats is 0.
C5_AllActive ==
    (Returned /\ ~all_inactive /\ GivenInactive = {} /\ Len(RawMetrics) >= 1) =>
        /\ \A d \in DimensionSet :
              result.dimensions[d].maximum > 0 => result.dimensions[d].score = 0
        /\ result.overall = 0
        /\ RatIs(result.stars, 0)
        /\ result.inactive_threats = 0

C5_Witness ==
    /\ Returned
    /\ ~all_inactive
    /\ GivenInactive = {}
    /\ Len(RawMetrics) = 2
    /\ result.dimensions["network"].maximum = 7
    /\ result.dimensions["network"].score = 0
    /\ result.active_threats = 2

\* s begins with p, character by character.
IsPrefixOf(p, s) == Len(p) <= Len(s) /\ \A k \in 1..Len(p) : s[k] = p[k]

\* The (metric, tag) pairs of the document, by position.
TagPairs ==
    UNION {{<<i, j>> : j \in 1..Len(RawMetrics[i].tags)} : i \in 1..Len(RawMetrics)}

\* The pairs whose tag starts with p.
PairsOf(p) == {ij \in TagPairs : IsPrefixOf(p, RawMetrics[ij[1]].tags[ij[2]])}

\* C6: whenever compute_score returns, for each key p of the compliance map,
\* total is the number of (metric, tag) pairs whose tag starts with p (so a
\* shorter prefix also counts the tags of a longer prefix that extends it) and
\* compliant is the number of those pairs whose metric is inactive.
C6_ComplianceCounts ==
    Returned =>
        \A p \in DOMAIN result.compliance :
            /\ result.compliance[p].total = Cardinality(PairsOf(p))
            /\ result.compliance[p].compliant =
                   Cardinality({ij \in PairsOf(p) : ij[1] \in InactivePositions})

C6_Witness ==
    /\ Returned
    /\ <<"C">> \in DOMAIN result.compliance
    /\ <<"C", "B">> \in DOMAIN result.compliance
    /\ result.compliance[<<"C", "B">>].total = 1
    /\ result.compliance[<<"C">>].total = 3
    /\ result.compliance[<<"C">>].compliant = 2

\* The part of a tag before its first separator, or the whole tag: the initial
\* segment without a separator that ends the tag or is followed by a separator.
PrefixOfTag(tag) ==
    CHOOSE p \in {SubSeq(tag, 1, k) : k \in 0..Len(tag)} :
        /\ \A k \in 1..Len(p) : p[k] # ","
        /\ Len(p) = Len(tag) \/ tag[Len(p) + 1] = ","

\* C7: whenever compute_score returns, the keys of the compliance map are
\* exactly the prefixes of the tags of the metrics, each entry carries its key
\* as tag, a tag without separator is keyed by the whole tag, and a model
\* without tags has no compliance entries.
C7_ComplianceKeys ==
    Returned =>
        /\ DOMAIN result.compliance =
               {PrefixOfTag(RawMetrics[ij[1]].tags[ij[2]]) : ij \in TagPairs}
        /\ \A p \in DOMAIN result.compliance : result.compliance[p].tag = p
        /\ \A ij \in TagPairs :
              LET tag == RawMetrics[ij[1]].tags[ij[2]]
              IN  (\A k \in 1..Len(tag) : tag[k] # ",") =>
                      tag \in DOMAIN result.compliance
        /\ (TagPairs # {} /\ \A ij \in TagPairs : RawMetrics[ij[1]].tags[ij[2]] = <<"C", "B">>) =>
               DOMAIN result.compliance = {<<"C", "B">>}
        /\ TagPairs = {} => DOMAIN result.compliance = {}

C7_Witness ==
    /\ Returned
    /\ DOMAIN result.compliance = {<<"C">>, <<"C", "B">>}
    /\ result.compliance[<<"C", "B">>].total = 1

\* What the metric at position i adds to bucket p: the value of the loop's
\* counter (total or compliant) after the metric's iteration less its value
\* before it.
AddsTotal(i, p) ==
    ComplianceTotal(result.metrics, p, i) - ComplianceTotal(result.metrics, p, i - 1)

AddsCompliant(i, p) ==
    ComplianceCompliant(result.metrics, p, i) - ComplianceCompliant(result.metrics, p, i - 1)

\* The counts of every bucket are what the metrics add, one after the other.
BucketsAreSums ==
    \A p \in DOMAIN result.compliance :
        /\ result.compliance[p].total =
               SumFn([i \in 1..Len(RawMetrics) |-> AddsTotal(i, p)], 1..Len(RawMetrics))
        /\ result.compliance[p].compliant =
               SumFn([i \in 1..Len(RawMetrics) |-> AddsCompliant(i, p)], 1..Len(RawMetrics))

\* The tags of the metric at position i that start with p.
OwnPairs(i, p) == {ij \in PairsOf(p) : ij[1] = i}

\* C8 as stated: one metric adds at most 1 to the total and to the compliant
\* of any one bucket, and is counted in each bucket its tags belong to.
C8_AtMostOncePerBucket ==
    Returned =>
        \A i \in 1..Len(RawMetrics) :
            /\ \A p \in DOMAIN result.compliance :
                  AddsTotal(i, p) <= 1 /\ AddsCompliant(i, p) <= 1
            /\ \A j \in 1..Len(RawMetrics[i].tags) :
                  AddsTotal(i, PrefixOfTag(RawMetrics[i].tags[j])) >= 1

\* C8, amended: a metric adds to the total of a bucket the number of its tags
\* that start with the bucket's key (1 for each such tag, so more than 1 when
\* several of its tags match), to compliant the same number when it is
\* inactive and 0 when it is active, and it is counted in each bucket its
\* tags belong to.
C8_OncePerMatchingTag ==
    Returned =>
        /\ BucketsAreSums
        /\ \A i \in 1..Len(RawMetrics) :
              /\ \A p \in DOMAIN result.compliance :
                    /\ AddsTotal(i, p) = Cardinality(OwnPairs(i, p))
                    /\ AddsCompliant(i, p) =
                          IF i \in InactivePositions THEN Cardinality(OwnPairs(i, p)) ELSE 0
              /\ \A j \in 1..Len(RawMetrics[i].tags) :
                    AddsTotal(i, PrefixOfTag(RawMetrics[i].tags[j])) >= 1

C8_Witness ==
    /\ Returned
    /\ Len(RawMetrics) = 2
    /\ RawMetrics[1].tags = <<<<"C", ",", "A", ",", "B">>, <<"C", "B">>>>
    /\ RawMetrics[2].tags = <<<<"C", "B">>>>
    /\ AddsTotal(1, <<"C">>) = 2
    /\ AddsTotal(1, <<"C", "B">>) = 1
    /\ AddsTotal(2, <<"C">>) = 1
    /\ result.compliance[<<"C">>].total = 3

\* C9: whenever compute_score returns, active_threats + inactive_threats =
\* total_metrics, where total_metrics is the number of metric records of the
\* document, active_threats the number with active true and inactive_threats
\* the number with active false.
C9_CountsAddUp ==
    Returned =>
        /\ result.active_threats + result.inactive_threats = result.total_metrics
        /\ result.total_metrics = Len(RawMetrics)
        /\ Len(result.metrics) = Len(RawMetrics)
        /\ result.inactive_threats = Cardinality(InactivePositions)
        /\ result.active_threats = Cardinality((1..Len(RawMetrics)) \ InactivePositions)

C9_Witness ==
    /\ Returned
    /\ result.total_metrics = 2
    /\ result.active_threats = 1
    /\ result.inactive_threats = 1

\* C10: all_inactive takes precedence over the inactive set: with all_inactive
\* the outcome is the same for every inactive set and every returned metric
\* has active false; without it a metric is active exactly when its name is
\* not in the inactive set.
C10_AllInactivePrecedence ==
    pc = "done" =>
        /\ all_inactive =>
              /\ \A arg \in InactiveArgs :
                    ComputeScore(threat_model, arg, TRUE) =
                        [raised |-> raised, value |-> result]
              /\ Returned =>
                    \A i \in 1..Len(RawMetrics) : ~result.metrics[i].active
        /\ (~all_inactive /\ Returned) =>
              \A i \in 1..Len(RawMetrics) :
                  result.metrics[i].active <=> RawMetrics[i].name \notin GivenInactive

C10_Witness ==
    /\ Returned
    /\ all_inactive
    /\ GivenInactive = {"t1"}
    /\ Len(RawMetrics) = 2
    /\ RawMetrics[1].name = "t1"
    /\ RawMetrics[2].name = "t2"
    /\ result.inactive_threats = 2

\* The double a float of the result holds.
DoubleOf(r) == FloatDiv(r.num, r.den)

\* percentage * total == 100 * compliant, as Python evaluates it.
PercentageIdentity(c) ==
    FloatEqualsInt(FloatTimes(DoubleOf(c.percentage), c.total), 100 * c.compliant)

\* C15 as stated: for each emitted ComplianceResult, percentage * total ==
\* 100 * compliant, and 0 <= percentage <= 100.
C15_ExactPercentage ==
    Returned =>
        \A p \in DOMAIN result.compliance :
            LET c == result.compliance[p]
            IN  /\ PercentageIdentity(c)
                /\ FloatLEInt(DoubleOf(c.percentage), 100)

\* C15, amended: for each emitted ComplianceResult, percentage is the double
\* the division of 100 * compliant by total returns, not a floored value: it
\* is a whole number exactly when total divides 100 * compliant (50.0 for 1
\* of 2, not 33 for 1 of 3), it lies in 0..100, and percentage * total ==
\* 100 * compliant for every total up to 10 (it fails for 1 of 11).
C15_Percentage ==
    Returned =>
        \A p \in DOMAIN result.compliance :
            LET c     == result.compliance[p]
                exact == 100 * c.compliant
                floor == exact \div c.total
            IN  /\ c.total > 0
                /\ c.compliant \in 0..c.total
                /\ c.percentage = [num |-> exact, den |-> c.total]
                /\ FloatEqualsInt(DoubleOf(c.percentage), floor) <=> (exact % c.total = 0)
                /\ FloatLEInt(DoubleOf(c.percentage), floor + 1)
                /\ exact % c.total # 0 => ~FloatLEInt(DoubleOf(c.percentage), floor)
                /\ FloatLEInt(DoubleOf(c.percentage), 100)
                /\ c.total <= 10 => PercentageIdentity(c)
                /\ (c.compliant = 1 /\ c.total = 2) =>
                       FloatEqualsInt(DoubleOf(c.percentage), 50)
                /\ (c.compliant = 1 /\ c.total = 11) => ~PercentageIdentity(c)

\* A bucket of 11 tags with 1 compliant: percentage * total is not 100.
C15_Witness ==
    /\ Returned
    /\ \E p \in DOMAIN result.compliance :
           /\ result.compliance[p].total = 11
           /\ result.compliance[p].compliant = 1
           /\ ~PercentageIdentity(result.compliance[p])

\* No metric of the document has a negative severity.
NonNegativeSeverities == \A i \in 1..Len(RawMetrics) : RawMetrics[i].severity >= 0

\* For each overall of 0..100: 20 * stars == overall and stars <= 5.0, as
\* Python evaluates them on the double overall * 5.0 / 100.0.
StarsRescale ==
    [o \in 0..100 |->
        LET stars == FloatDiv(5 * o, 100)
        IN  FloatEqualsInt(FloatTimes(stars, 20), o) /\ FloatLEInt(stars, 5)]

\* overall 60 gives stars 3.0.
Stars60 == FloatEqualsInt(DoubleOf(Stars(60)), 3)

FloatLE(x, y) ==
    \/ x.bits = <<>>
    \/ /\ y.bits # <<>>
       /\ NumLE(x.bits \o Zeros(y.scale), y.bits \o Zeros(x.scale))

\* The doubles of the percentages of buckets of up to 2 * MaxMetrics tags, and
\* of the stars of each overall of 0..100.
PercentageDouble ==
    [c \in 0..(2 * MaxMetrics), t \in 1..(2 * MaxMetrics) |-> FloatDiv(100 * c, t)]

StarsDouble == [o \in 0..100 |-> FloatDiv(5 * o, 100)]

\* The dimensions of the document's metrics are all among the five labels.
KnownDimensions ==
    \A i \in 1..Len(RawMetrics) : RawMetrics[i].dimension \in DimensionSet

\* What compute_score returns for the same document and flag with the
\* inactive set T.
ResultWith(T) ==
    ComputeScore(threat_model, [none |-> FALSE, names |-> T], all_inactive).value

\* The result `more` is at least the result `less` in every score, and equal
\* to it in what does not depend on the inactive set.
Improves(less, more) ==
    /\ \A d \in DimensionSet :
           /\ more.dimensions[d].current >= less.dimensions[d].current
           /\ more.dimensions[d].score >= less.dimensions[d].score
           /\ more.dimensions[d].maximum = less.dimensions[d].maximum
    /\ more.overall >= less.overall
    /\ more.stars.num * less.stars.den >= less.stars.num * more.stars.den
    /\ FloatLE(StarsDouble[less.overall], StarsDouble[more.overall])
    /\ DOMAIN more.compliance = DOMAIN less.compliance
    /\ \A p \in DOMAIN less.compliance :
           LET a == less.compliance[p]
               b == more.compliance[p]
           IN  /\ b.compliant >= a.compliant
               /\ b.total = a.total
               /\ b.percentage.num * a.percentage.den
                      >= a.percentage.num * b.percentage.den
               /\ FloatLE(PercentageDouble[a.compliant, a.total],
                          PercentageDouble[b.compliant, b.total])
    /\ more.total_metrics = less.total_metrics

\* C18: for a document with non-negative severities and dimensions among the
\* five labels, and inactive sets S a subset of T, compute_score with T gives
\* a current and score at least as large in every dimension, an overall and
\* stars at least as large, a compliant count and percentage at least as
\* large in every bucket, and the same maximum, total and compliance keys.
C18_Monotone ==
    (Returned /\ NonNegativeSeverities /\ KnownDimensions) =>
        \A T \in SUBSET Names :
            GivenInactive \subseteq T => Improves(result, ResultWith(T))

\* S = {t1}, T = {t1, t2}: the overall rises from 42 to 100.
C18_Witness ==
    /\ Returned
    /\ NonNegativeSeverities
    /\ KnownDimensions
    /\ ~all_inactive
    /\ GivenInactive = {"t1"}
    /\ result.overall = 42
    /\ ResultWith({"t1", "t2"}).overall = 100
    /\ Improves(result, ResultWith({"t1", "t2"}))

\* Positions of the document's records that lack a required key.
LackingRequired ==
    {i \in 1..Len(RawMetrics) : ~(RequiredFields \subseteq DOMAIN RawMetrics[i])}

\* C12: when a metric record lacks name, dimension or severity, compute_score
\* raises and returns no ScoreResult; when the records lack at most their
\* tags, it returns every record as given, with empty tags for a record
\* without tags.
C12_MissingRequiredField ==
    pc = "done" =>
        /\ LackingRequired # {} => (raised = "KeyError" /\ result = NoResult)
        /\ LackingRequired = {} =>
               /\ Returned
               /\ Len(result.metrics) = Len(RawMetrics)
               /\ \A i \in 1..Len(RawMetrics) :
                      /\ \A f \in RequiredFields : result.metrics[i][f] = RawMetrics[i][f]
                      /\ result.metrics[i].tags =
                             IF "tags" \in DOMAIN RawMetrics[i]
                             THEN RawMetrics[i].tags ELSE <<>>

\* The second of two records lacks only its severity: no result.
C12_Witness ==
    /\ pc = "done"
    /\ Len(RawMetrics) = 2
    /\ DOMAIN RawMetrics[1] = {"name", "dimension", "severity"}
    /\ DOMAIN RawMetrics[2] = {"name", "dimension", "tags"}
    /\ raised = "KeyError"
    /\ result = NoResult

\* C17: no part of the returned ScoreResult is shared with the document: after
\* the call, a change of the document leaves the result as it was returned,
\* and a change of the result leaves the document as it was.
C17_NoSharing ==
    [][(pc = "done" /\ raised = "none")
          => (threat_model' = threat_model \/ result' = result)]_vars

\* The parsed content of the checks file, when it is a JSON file.
ChecksFileData == files.checks.data

\* x is an array of strings.
IsArrayOfStrings(x) ==
    /\ x.kind = "array"
    /\ \A i \in 1..Len(x.items) : x.items[i].kind = "string"

\* The data has one of the two shapes: an array of strings, or an object
\* whose "inactive" is an array of strings.
AcceptedShape(data) ==
    \/ IsArrayOfStrings(data)
    \/ /\ data.kind = "object"
       /\ "inactive" \in DOMAIN data.fields
       /\ IsArrayOfStrings(data.fields.inactive)

\* The strings the accepted shape lists.
ListedStrings(data) ==
    LET array == IF data.kind = "array" THEN data ELSE data.fields.inactive
    IN  {array.items[i] : i \in 1..Len(array.items)}

\* C14: load_checks_file returns the set of the listed strings for an array
\* of strings and for an object whose "inactive" is an array of strings, and
\* raises ValueError, returning no set, for every other parsed JSON.
C14_ExactlyTwoShapes ==
    (pc = "done" /\ files.checks.kind = "json") =>
        IF AcceptedShape(ChecksFileData)
        THEN raised = "none" /\ result = ListedStrings(ChecksFileData)
        ELSE raised = "ValueError" /\ result = NoResult

\* What main loaded as the threat model, and whether it is a JSON object.
LoadedModel == LoadModel(args, files)

DocIsObject == LoadedModel.raised = "none" /\ LoadedModel.value.kind = "object"

\* main has built the inactive set (from --inactive and the checks file).
InactiveBuilt == pc = "exit" /\ DocIsObject /\ ~inactive_threats.none

\* The names of the document's metrics, and the elements of the inactive set
\* that are none of them.
MetricNames ==
    {RawMetrics[i].name : i \in {k \in 1..Len(RawMetrics) : "name" \in DOMAIN RawMetrics[k]}}

UnknownNames ==
    {e \in inactive_threats.names : ~(e.kind = "string" /\ e.v \in MetricNames)}

\* The result of compute_score for the inactive set without the unknown names.
ResultWithoutUnknown ==
    ComputeScore(threat_model,
                 [none |-> FALSE, names |-> NamesOf(inactive_threats.names \ UnknownNames)],
                 all_inactive).value

\* The document makes compute_score raise (C3, C12).
DocumentRaises ==
    MissingKey(RawMetrics)
    \/ \E i \in 1..Len(RawMetrics) : RawMetrics[i].dimension \notin DimensionSet

\* C11 as stated: whenever the inactive set main built holds a name that
\* matches no metric and compute_score returns, main returns 0, the warning
\* naming the unknown names is on stderr, and the result is the one computed
\* without those names.
C11_AlwaysWarned ==
    (InactiveBuilt /\ UnknownNames # {} /\ result # NoResult) =>
        /\ exit_code = 0
        /\ stderr = <<Warning(UnknownNames)>>
        /\ result = ResultWithoutUnknown

\* C11, amended: when the inactive set main built holds unknown names, all of
\* them strings, main ends as compute_score does on the document (it returns
\* 0 unless compute_score raises); when it returns 0, the result is the one
\* computed without the unknown names, and the warning naming them is on
\* stderr exactly when --all-inactive is not given.
C11_UnknownNamesInert ==
    (InactiveBuilt /\ UnknownNames # {}) =>
        /\ (\A e \in UnknownNames : e.kind = "string") =>
               /\ raised = (IF DocumentRaises THEN "KeyError" ELSE "none")
               /\ raised = "none" => exit_code = 0
        /\ exit_code = 0 =>
               /\ result = ResultWithoutUnknown
               /\ stderr = IF all_inactive THEN <<>> ELSE <<Warning(UnknownNames)>>

\* The set {t1, zz} on a document of two metrics: zz is warned about, one
\* metric is inactive.
C11_Witness ==
    /\ InactiveBuilt
    /\ UnknownNames = {JsonString("zz")}
    /\ inactive_threats.names = {JsonString("t1"), JsonString("zz")}
    /\ ~all_inactive
    /\ exit_code = 0
    /\ stderr = <<Warning({JsonString("zz")})>>
    /\ result.total_metrics = 2
    /\ result.inactive_threats = 1
    /\ result = ResultWithoutUnknown

\* A run of main met a load or parse failure: the threat model was not
\* loaded or is no JSON object, or the checks file main read was not loaded
\* or has neither of the two shapes.
ModelLoadFailure == ~DocIsObject

ChecksLoadFailure ==
    /\ DocIsObject
    /\ ~args.list_threats
    /\ args.checks_file
    /\ \/ files.checks.kind # "json"
       \/ ~AcceptedShape(files.checks.data)

\* C13: every run of main that meets a load or parse failure returns 1 with
\* an error message on stderr, and ends neither in an exception nor in 0.
C13_LoadFailureReturns1 ==
    (pc = "exit" /\ (ModelLoadFailure \/ ChecksLoadFailure)) =>
        /\ raised = "none"
        /\ exit_code = 1
        /\ Len(stderr) = 1
        /\ stderr[1].kind = "Error loading"

=============================================================================
